---- MODULE Spec2Model ----
(***************************************************************************)
(* Model of the pragma-etl batch pipeline: the file selector and the chunk *)
(* reader (etl/extract.py), the row transformer (etl/transform.py), the    *)
(* row loader (etl/load.py), the database wrapper (utils/database.py) and  *)
(* the pipeline driver (run_data_pipeline.py).                             *)
(*                                                                         *)
(* A nullable value (Python None / NaN) is a sequence of length at most 1: *)
(* <<>> is the missing value, <<v>> the value v.                           *)
(***************************************************************************)
EXTENDS Integers, Sequences, FiniteSets, TLC

\* ------------------------------------------------------------------ bounds
MaxFiles == 2
MaxTotalRows == 3
MaxChunk == 2
MaxDirSize == 3

\* ------------------------------------------------------- nullable values
Missing == <<>>
Some(v) == <<v>>
IsNa(x) == x = Missing

\* ------------------------------------------------------------- exceptions
NoExc == [type |-> "none", at |-> "none"]
Exc(type, origin) == [type |-> type, at |-> origin]

\* -------------------------------------------------------------- raw input
\* A raw timestamp is the text "mm/dd/yyyy", held as its three numbers in the
\* order they are written: <<month, day, year>>; an empty field is Missing.
RawRows ==
    { [timestamp |-> <<2, 29, 2024>>,  price |-> Some(10), user_id |-> Some(1)],
      [timestamp |-> <<12, 31, 2023>>, price |-> Some(30), user_id |-> Some(2)],
      [timestamp |-> <<1, 5, 2024>>,   price |-> Missing,  user_id |-> Some(1)],
      [timestamp |-> <<2, 30, 2024>>,  price |-> Some(30), user_id |-> Some(2)],
      [timestamp |-> Missing,          price |-> Some(10), user_id |-> Missing] }

SeqsUpTo(S, n) == UNION { [1..k -> S] : k \in 0..n }

RECURSIVE SumLens(_, _)
SumLens(lens, k) == IF k = 0 THEN 0 ELSE lens[k] + SumLens(lens, k - 1)

\* The rows flat[from+1 .. from+len]
Slice(flat, from, len) == SubSeq(flat, from + 1, from + len)

\* A file on disk: readable with some rows, or unreadable (missing, not a CSV).
MakeFiles(flat, lens, bad) ==
    [i \in DOMAIN lens |->
        [readable |-> i \notin bad,
         rows |-> Slice(flat, SumLens(lens, i - 1), lens[i])]]

FileSets ==
    { MakeFiles(c[1], c[2], c[3]) :
        c \in { d \in SeqsUpTo(RawRows, MaxTotalRows)
                       \X SeqsUpTo(0..MaxTotalRows, MaxFiles)
                       \X SUBSET (1..MaxFiles) :
                  /\ SumLens(d[2], Len(d[2])) = Len(d[1])
                  /\ d[3] \subseteq DOMAIN d[2]
                  /\ \A i \in d[3] : d[2][i] = 0 } }

\* --------------------------------------------------------------- transform
IsLeap(y) == (y % 4 = 0 /\ y % 100 # 0) \/ y % 400 = 0

DaysInMonth(m, y) ==
    IF m = 2 THEN (IF IsLeap(y) THEN 29 ELSE 28)
    ELSE IF m \in {4, 6, 9, 11} THEN 30 ELSE 31

\* Whether the text month/day/year names a calendar date (format "%m/%d/%Y").
MatchesFormat(raw) ==
    /\ raw[1] \in 1..12
    /\ raw[2] \in 1..DaysInMonth(raw[1], raw[3])
    /\ raw[3] \in 1..9999

\* The calendar date the text names.
ToDatetime(raw) == [year |-> raw[3], month |-> raw[1], day |-> raw[2]]

\* pd.to_datetime of one value: a missing value stays missing (NaT).
to_datetime(raw) == IF IsNa(raw) THEN Missing ELSE Some(ToDatetime(raw))

\* chunk["processed_date"] = pd.to_datetime("now")
add_processed_date(chunk, clock) ==
    [i \in DOMAIN chunk |->
        [timestamp |-> chunk[i].timestamp, price |-> chunk[i].price,
         user_id |-> chunk[i].user_id, processed_date |-> Some(clock)]]

\* Mutant of convert_to_date_fails: only the first value of the column is
\* checked against the format.
convert_to_date_fails_first(chunk) ==
    /\ chunk # <<>>
    /\ ~IsNa(chunk[1].timestamp)
    /\ ~MatchesFormat(chunk[1].timestamp)

\* pd.to_datetime over the whole column: one bad value fails the whole column.
convert_to_date_fails(chunk) ==
    \E i \in DOMAIN chunk :
        ~IsNa(chunk[i].timestamp) /\ ~MatchesFormat(chunk[i].timestamp)

convert_to_date(chunk) ==
    [i \in DOMAIN chunk |->
        [timestamp |-> to_datetime(chunk[i].timestamp), price |-> chunk[i].price,
         user_id |-> chunk[i].user_id, processed_date |-> chunk[i].processed_date]]

\* The day, month and year of the parsed timestamp; those of a missing
\* timestamp (NaT) are missing (NaN).
add_date_partition(row) ==
    [timestamp |-> row.timestamp, price |-> row.price, user_id |-> row.user_id,
     processed_date |-> row.processed_date,
     day |-> IF IsNa(row.timestamp) THEN Missing ELSE Some(row.timestamp[1].day),
     month |-> IF IsNa(row.timestamp) THEN Missing ELSE Some(row.timestamp[1].month),
     year |-> IF IsNa(row.timestamp) THEN Missing ELSE Some(row.timestamp[1].year)]

\* chunk.apply(add_date_partition, axis=1)
apply_add_date_partition(chunk) ==
    [i \in DOMAIN chunk |-> add_date_partition(chunk[i])]

\* ------------------------------------------------------------ chunk reader
\* Mutant of next_chunk: a batch after the first starts one row early, on the
\* last row of the batch before it.
next_chunk_overlap(rows, pos, size) ==
    SubSeq(rows, IF pos = 0 THEN 1 ELSE pos,
           IF pos + size <= Len(rows) THEN pos + size ELSE Len(rows))

\* The rows the next pull of pd.read_csv(file, chunksize=chunk_size) returns,
\* with the cursor at pos: at most chunk_size rows, in file order.
next_chunk(rows, pos, size) ==
    SubSeq(rows, pos + 1, IF pos + size <= Len(rows) THEN pos + size ELSE Len(rows))

\* Whether the reader has a batch to yield: rows are left, or the file holds no
\* row at all and nothing was yielded yet (the reader's first chunk is then an
\* empty batch).
has_chunk(rows, pos, yielded_so_far) ==
    pos < Len(rows) \/ (Len(rows) = 0 /\ yielded_so_far = 0)

\* -------------------------------------------------------------- statistics
IsValue(x) == x # Missing

\* valid_values = [x for x in prices if x is not None]
valid_values(ps) ==
    LET kept == SelectSeq(ps, IsValue) IN [i \in DOMAIN kept |-> kept[i][1]]

RECURSIVE sum(_)
sum(vs) == IF vs = <<>> THEN 0 ELSE vs[1] + sum(Tail(vs))

RECURSIVE min(_)
min(vs) ==
    IF Len(vs) = 1 THEN vs[1]
    ELSE LET m == min(Tail(vs)) IN IF vs[1] <= m THEN vs[1] ELSE m

RECURSIVE max(_)
max(vs) ==
    IF Len(vs) = 1 THEN vs[1]
    ELSE LET m == max(Tail(vs)) IN IF vs[1] >= m THEN vs[1] ELSE m

\* Mutant of avg_divisor: the divisor counts every row, priced or not.
avg_divisor_all(ps) == Len(ps)

\* The divisor of the average: len(valid_values)
avg_divisor(ps) == Len(valid_values(ps))

\* Lines 47-53 of the driver. The quotient sum/len is held as the pair
\* [num, den]. A zero divisor raises ZeroDivisionError after sum_price was set
\* (line 51); min() of no value raises ValueError (line 52).
statistics(ps) ==
    LET vs == valid_values(ps) IN
    IF avg_divisor(ps) = 0
    THEN [exc |-> Exc("ZeroDivisionError", "run_data_pipeline"),
          sum |-> Some(sum(vs)), avg |-> Missing, min |-> Missing, max |-> Missing]
    ELSE IF Len(vs) = 0
    THEN [exc |-> Exc("ValueError", "run_data_pipeline"),
          sum |-> Some(sum(vs)),
          avg |-> Some([num |-> sum(vs), den |-> avg_divisor(ps)]),
          min |-> Missing, max |-> Missing]
    ELSE [exc |-> NoExc,
          sum |-> Some(sum(vs)),
          avg |-> Some([num |-> sum(vs), den |-> avg_divisor(ps)]),
          min |-> Some(min(vs)),
          max |-> Some(max(vs))]

\* ------------------------------------------------------------------ loader
NoneIfNa(x) == IF IsNa(x) THEN Missing ELSE x

\* Mutant of values_to_insert: the price and the user id change places.
values_to_insert_swapped(row) ==
    << NoneIfNa(row.timestamp), NoneIfNa(row.day), NoneIfNa(row.month),
       NoneIfNa(row.year), NoneIfNa(row.user_id), NoneIfNa(row.price),
       NoneIfNa(row.processed_date) >>

\* load_row's values_to_insert: 7 positional values, each None when missing.
values_to_insert(row) ==
    << NoneIfNa(row.timestamp), NoneIfNa(row.day), NoneIfNa(row.month),
       NoneIfNa(row.year), NoneIfNa(row.price), NoneIfNa(row.user_id),
       NoneIfNa(row.processed_date) >>

\* The column list of load_row's INSERT; its VALUES list has one %s for each.
insert_columns ==
    << "timestamp", "day", "month", "year", "price", "user_id", "processed_date" >>

\* The arguments of db.insert in load_row: the statement and one tuple.
insert_args(row) ==
    [columns |-> insert_columns, kind |-> "tuple", values |-> values_to_insert(row)]

LogEntry(origin, level, e) == [at |-> origin, level |-> level, exc |-> e]

\* Lines 76-81: a list of tuples goes to cursor.executemany, one tuple to
\* cursor.execute.
cursor_call(kind) == IF kind = "list" THEN "executemany" ELSE "execute"

\* The statement __execute_sql__ sends to the server, and whether it was
\* committed (line 93).
Statement(args, committed) ==
    [call |-> cursor_call(args.kind), columns |-> args.columns,
     args |-> args.values, committed |-> committed]

\* MySQLDatabase.__execute_sql__ for an insert with commit=True: db_ok says
\* whether the server executes and commits the statement. issued holds the
\* statements sent to the server by this call.
execute_sql(conn, tbl, args, db_ok) ==
    IF conn = "none"
    THEN LET e == Exc("MySQLError", "__execute_sql__") IN
         [table |-> tbl, issued |-> <<>>, exc |-> e,
          log |-> <<LogEntry("__execute_sql__", "fatal", e)>>]
    ELSE IF ~db_ok
    THEN LET e == Exc("MySQLError", "__execute_sql__") IN
         [table |-> tbl, issued |-> <<Statement(args, FALSE)>>, exc |-> e,
          log |-> <<LogEntry("__execute_sql__", "fatal", e)>>]
    ELSE [table |-> IF cursor_call(args.kind) = "executemany"
                    THEN tbl \o args.values ELSE Append(tbl, args.values),
          issued |-> <<Statement(args, TRUE)>>, exc |-> NoExc, log |-> <<>>]

\* Mutant of load_row: the handler raises an error of its own instead of
\* re-raising the one it caught.
load_row_wraps(conn, tbl, row, db_ok) ==
    LET res == execute_sql(conn, tbl, insert_args(row), db_ok) IN
    IF res.exc # NoExc
    THEN [table |-> res.table, issued |-> res.issued,
          exc |-> Exc("RuntimeError", "load_row"),
          log |-> Append(res.log, LogEntry("load_row", "fatal", res.exc))]
    ELSE res

\* load_row: build the values, insert, and on any error log and re-raise it.
load_row(conn, tbl, row, db_ok) ==
    LET res == execute_sql(conn, tbl, insert_args(row), db_ok) IN
    IF res.exc # NoExc
    THEN [table |-> res.table, issued |-> res.issued, exc |-> res.exc,
          log |-> Append(res.log, LogEntry("load_row", "fatal", res.exc))]
    ELSE res

\* Mutant of exit_connection: the connection is left as it is.
exit_connection_leak(conn) == conn

\* MySQLDatabase.__exit__: close the connection if there is one; the method
\* returns None, so the exception of the scope is not suppressed.
exit_connection(conn) == IF conn = "open" THEN "closed" ELSE conn
exit_suppresses == FALSE

\* ------------------------------------------------------------ file selector
\* A file name or path is the sequence of its characters.
Csv == <<".", "c", "s", "v">>
Keyword == <<"v", "a", "l", "i", "d", "a", "t", "i", "o", "n">>
DataDir == <<".", "/", "d", "a", "t", "a", "/">>

FileNames ==
    { <<"a">> \o Csv,
      <<"b">> \o Csv,
      Keyword \o Csv,
      <<"a", "_">> \o Keyword \o Csv,
      Keyword \o <<".", "t", "x", "t">>,
      <<"a", "c", "s", "v">>,
      <<"b">> \o Csv \o <<".", "b", "a", "k">> }

\* The listings os.listdir("data") can return: the names in any order.
Listings ==
    { l \in SeqsUpTo(FileNames, MaxDirSize) :
        \A i, j \in DOMAIN l : i # j => l[i] # l[j] }

\* The code point of a character.
ord(c) ==
    CASE c = "." -> 46 [] c = "/" -> 47 [] c = "_" -> 95 [] c = "a" -> 97
      [] c = "b" -> 98 [] c = "c" -> 99 [] c = "d" -> 100 [] c = "i" -> 105
      [] c = "k" -> 107 [] c = "l" -> 108 [] c = "n" -> 110 [] c = "o" -> 111
      [] c = "s" -> 115 [] c = "t" -> 116 [] c = "v" -> 118 [] c = "x" -> 120

\* str.endswith
endswith(str, suffix) ==
    /\ Len(suffix) <= Len(str)
    /\ SubSeq(str, Len(str) - Len(suffix) + 1, Len(str)) = suffix

\* The "in" operator on strings: sub occurs somewhere in str.
contains(str, sub) ==
    \E i \in 1..(Len(str) - Len(sub) + 1) : SubSeq(str, i, i + Len(sub) - 1) = sub

\* The "<" operator on strings: by code point, a proper prefix first.
RECURSIVE str_lt(_, _)
str_lt(a, b) ==
    IF b = <<>> THEN FALSE
    ELSE IF a = <<>> THEN TRUE
    ELSE IF a[1] # b[1] THEN ord(a[1]) < ord(b[1])
    ELSE str_lt(Tail(a), Tail(b))

\* One element put in its place in an ascending list.
RECURSIVE insert_sorted(_, _)
insert_sorted(x, l) ==
    IF l = <<>> THEN <<x>>
    ELSE IF str_lt(l[1], x) THEN <<l[1]>> \o insert_sorted(x, Tail(l))
    ELSE <<x>> \o l

\* sorted(): the elements of the list in ascending order.
RECURSIVE sorted(_)
sorted(l) == IF l = <<>> THEN <<>> ELSE insert_sorted(l[1], sorted(Tail(l)))

IsCsv(name) == endswith(name, Csv)
HasKeyword(path) == contains(path, Keyword)
NoKeyword(path) == ~contains(path, Keyword)

\* [f"./data/{f}" for f in os.listdir("data") if f.endswith(".csv")]
csv_paths(listing) ==
    LET kept == SelectSeq(listing, IsCsv) IN [i \in DOMAIN kept |-> DataDir \o kept[i]]

\* Mutant of flags_conflict: the flags are never checked against each other.
flags_conflict_never(exclude, only) == FALSE

\* Line 11: the two flags exclude each other.
flags_conflict(exclude, only) == exclude /\ only

\* Mutant of data_files: the paths are left in listing order.
data_files_unsorted(dirlist, exclude, only) ==
    LET all == csv_paths(dirlist)
        kept == IF exclude THEN SelectSeq(all, NoKeyword) ELSE all
    IN  IF only THEN SelectSeq(kept, HasKeyword) ELSE kept

\* Lines 15-21: the sorted paths, filtered by the flags.
data_files(dirlist, exclude, only) ==
    LET all == sorted(csv_paths(dirlist))
        kept == IF exclude THEN SelectSeq(all, NoKeyword) ELSE all
    IN  IF only THEN SelectSeq(kept, HasKeyword) ELSE kept

\* ================================================================== state
VARIABLES
    files,            \* the run's file set: a sequence of files on disk
    chunk_size,       \* the run's chunk size
    pc,               \* where the run is
    connection,       \* MySQLDatabase.connection: "none", "open" or "closed"
    table,            \* the committed rows of the target table, in commit order
    statements,       \* the statements sent to the server, in order
    f,                \* index in files of the file being processed (0: none yet)
    pos,              \* rows of the current file the chunk reader has read
    n,                \* enumerate index of the current micro-batch (-1: none yet)
    yielded,          \* the batches the chunk reader yielded for the current file
    chunk,            \* the current micro-batch
    r,                \* rows of the current micro-batch taken by the row loop
    clock,            \* the wall clock pd.to_datetime("now") reads
    total_rows,
    total_rows_file,
    prices,
    actual_row_price,
    sum_price,
    avg_price,
    min_price,
    max_price,
    metrics,          \* the records sent to the metrics logger, in order
    log,              \* the error and fatal records of the operational logger
    exc,              \* the exception propagating out of the run (NoExc: none)
    listing,          \* what os.listdir("data") returns
    dir_exists,       \* whether the data directory exists
    exclude_validation,
    only_validation,
    gen,              \* the get_data_files generator: "not_called", "created",
                      \* "suspended" (at its yield), "exhausted" or "raised"
    gen_files,        \* the generator's local list files
    gen_pos,          \* how many of gen_files the generator has yielded
    selected          \* the paths the generator yielded, in order

vars ==
    << files, chunk_size, pc, connection, table, statements, f, pos, n, yielded, chunk, r,
       clock, total_rows, total_rows_file, prices, actual_row_price, sum_price,
       avg_price, min_price, max_price, metrics, log, exc, listing, dir_exists,
       exclude_validation, only_validation, gen, gen_files, gen_pos, selected >>

selectorInputs == << listing, dir_exists, exclude_validation, only_validation >>
selectorVars == << selectorInputs, gen, gen_files, gen_pos, selected >>
pipelineVars ==
    << files, chunk_size, connection, table, statements, f, pos, n, yielded, chunk, r, clock,
       total_rows, total_rows_file, prices, actual_row_price, sum_price,
       avg_price, min_price, max_price, metrics >>
inputVars == << files, chunk_size, selectorVars >>
dbVars == << connection, table, statements >>
readerVars == << f, pos, n, yielded >>
statVars == << sum_price, avg_price, min_price, max_price >>
countVars == << total_rows, total_rows_file, prices, actual_row_price >>

\* The state before the run, apart from its inputs.
InitPipeline ==
    /\ connection = "none"
    /\ table = <<>>
    /\ statements = <<>>
    /\ f = 0
    /\ pos = 0
    /\ n = -1
    /\ yielded = <<>>
    /\ chunk = <<>>
    /\ r = 0
    /\ clock = 0
    /\ total_rows = 0
    /\ total_rows_file = 0
    /\ prices = <<>>
    /\ actual_row_price = Missing
    /\ sum_price = Missing
    /\ avg_price = Missing
    /\ min_price = Missing
    /\ max_price = Missing
    /\ metrics = <<>>
    /\ log = <<>>
    /\ exc = NoExc

\* The file selector before it is called.
InitSelector ==
    /\ gen = "not_called"
    /\ gen_files = <<>>
    /\ gen_pos = 0
    /\ selected = <<>>

\* A run of the pipeline over a file set, in the scope of the connection.
Init ==
    /\ files \in FileSets
    /\ chunk_size \in 1..MaxChunk
    /\ pc = "enter"
    /\ InitPipeline
    /\ listing = <<>>
    /\ dir_exists = TRUE
    /\ exclude_validation = FALSE
    /\ only_validation = FALSE
    /\ InitSelector

\* The run is the body of the caller's "with db:" scope: when it ends, by
\* returning or by an exception, __exit__ runs next.
LeaveScope == pc' = "exit"

\* An exception propagates out of run_data_pipeline.
Raise(e) == exc' = e /\ LeaveScope

\* ------------------------------------------------ the scope of the connection
\* MySQLDatabase.__enter__ connects.
Enter ==
    /\ pc = "enter"
    /\ connection' = "open"
    /\ pc' = "next_file"
    /\ UNCHANGED << inputVars, table, statements, readerVars, chunk, r, clock, countVars,
                    statVars, metrics, log, exc >>

\* MySQLDatabase.__enter__ fails to connect: logged, re-raised; the scope is
\* never entered, so __exit__ does not run.
EnterError ==
    /\ pc = "enter"
    /\ LET e == Exc("OperationalError", "__enter__") IN
        /\ log' = Append(log, LogEntry("__enter__", "fatal", e))
        /\ exc' = e
    /\ pc' = "raised"
    /\ UNCHANGED << inputVars, dbVars, readerVars, chunk, r, clock, countVars,
                    statVars, metrics >>

\* The end of the scope: __exit__ closes the connection; the exception of the
\* scope, if any, goes on to the caller unless __exit__ suppresses it.
Exit ==
    /\ pc = "exit"
    /\ connection' = exit_connection(connection)
    /\ IF exc # NoExc /\ exit_suppresses
       THEN exc' = NoExc /\ pc' = "done"
       ELSE exc' = exc /\ pc' = (IF exc = NoExc THEN "done" ELSE "raised")
    /\ UNCHANGED << inputVars, table, statements, readerVars, chunk, r, clock, countVars,
                    statVars, metrics, log >>

\* ------------------------------------------------------------- the driver
\* for f in files: the next file; a new chunk reader, total_rows_file = 0.
NextFile ==
    /\ pc = "next_file"
    /\ f < Len(files)
    /\ f' = f + 1
    /\ pos' = 0
    /\ n' = -1
    /\ yielded' = <<>>
    /\ total_rows_file' = 0
    /\ pc' = "next_batch"
    /\ UNCHANGED << inputVars, dbVars, chunk, r, clock, total_rows, prices,
                    actual_row_price, statVars, metrics, log, exc >>

\* for f in files: the file set is exhausted, the run returns.
EndOfFiles ==
    /\ pc = "next_file"
    /\ f = Len(files)
    /\ LeaveScope
    /\ UNCHANGED << inputVars, dbVars, readerVars, chunk, r, clock, countVars,
                    statVars, metrics, log, exc >>

\* micro_batches_generator: pd.read_csv raises on a file it cannot read.
MicroBatchError ==
    /\ pc = "next_batch"
    /\ ~files[f].readable
    /\ LET e == Exc("OSError", "micro_batches_generator") IN
        /\ log' = Append(log, LogEntry("micro_batches_generator", "fatal", e))
        /\ Raise(e)
    /\ UNCHANGED << inputVars, dbVars, readerVars, chunk, r, clock, countVars,
                    statVars, metrics >>

\* micro_batches_generator yields the next batch.
MicroBatchYield ==
    /\ pc = "next_batch"
    /\ files[f].readable
    /\ has_chunk(files[f].rows, pos, Len(yielded))
    /\ LET batch == next_chunk(files[f].rows, pos, chunk_size) IN
        /\ chunk' = batch
        /\ pos' = pos + Len(batch)
        /\ yielded' = Append(yielded, batch)
    /\ n' = n + 1
    /\ pc' = "transform"
    /\ UNCHANGED << inputVars, dbVars, f, r, clock, countVars, statVars, metrics,
                    log, exc >>

\* micro_batches_generator is exhausted: on to the next file.
MicroBatchStop ==
    /\ pc = "next_batch"
    /\ files[f].readable
    /\ ~has_chunk(files[f].rows, pos, Len(yielded))
    /\ pc' = "next_file"
    /\ UNCHANGED << inputVars, dbVars, readerVars, chunk, r, clock, countVars,
                    statVars, metrics, log, exc >>

\* Lines 37-39: stamp, parse the timestamps, derive the partitions.
TransformChunk ==
    /\ pc = "transform"
    /\ ~convert_to_date_fails(add_processed_date(chunk, clock))
    /\ chunk' = apply_add_date_partition(
                    convert_to_date(add_processed_date(chunk, clock)))
    /\ clock' = clock + 1
    /\ r' = 0
    /\ pc' = "row"
    /\ UNCHANGED << inputVars, dbVars, readerVars, countVars, statVars, metrics,
                    log, exc >>

\* Line 38: convert_to_date fails on the batch, logs the error and re-raises.
TransformError ==
    /\ pc = "transform"
    /\ convert_to_date_fails(add_processed_date(chunk, clock))
    /\ chunk' = add_processed_date(chunk, clock)
    /\ clock' = clock + 1
    /\ LET e == Exc("ValueError", "convert_to_date") IN
        /\ log' = Append(log, LogEntry("convert_to_date", "error", e))
        /\ Raise(e)
    /\ UNCHANGED << inputVars, dbVars, readerVars, r, countVars, statVars,
                    metrics >>

\* Lines 42-46: the next row of the batch; count it and append its price.
NextRow ==
    /\ pc = "row"
    /\ r < Len(chunk)
    /\ r' = r + 1
    /\ total_rows' = total_rows + 1
    /\ total_rows_file' = total_rows_file + 1
    /\ actual_row_price' = NoneIfNa(chunk[r + 1].price)
    /\ prices' = Append(prices, actual_row_price')
    /\ pc' = "stats"
    /\ UNCHANGED << inputVars, dbVars, readerVars, chunk, clock, statVars,
                    metrics, log, exc >>

\* The batch has no further row: on to the next batch.
EndOfChunk ==
    /\ pc = "row"
    /\ r = Len(chunk)
    /\ pc' = "next_batch"
    /\ UNCHANGED << inputVars, dbVars, readerVars, chunk, r, clock, countVars,
                    statVars, metrics, log, exc >>

\* Lines 47-53: the statistics over the prices so far.
ComputeStatistics ==
    /\ pc = "stats"
    /\ statistics(prices).exc = NoExc
    /\ sum_price' = statistics(prices).sum
    /\ avg_price' = statistics(prices).avg
    /\ min_price' = statistics(prices).min
    /\ max_price' = statistics(prices).max
    /\ pc' = "load"
    /\ UNCHANGED << inputVars, dbVars, readerVars, chunk, r, clock, countVars,
                    metrics, log, exc >>

\* Lines 50-51: the division raises; nothing in the driver catches or logs it.
StatisticsError ==
    /\ pc = "stats"
    /\ statistics(prices).exc # NoExc
    /\ sum_price' = statistics(prices).sum
    /\ avg_price' = (IF statistics(prices).avg = Missing
                     THEN avg_price ELSE statistics(prices).avg)
    /\ Raise(statistics(prices).exc)
    /\ UNCHANGED << inputVars, dbVars, readerVars, chunk, r, clock, countVars,
                    min_price, max_price, metrics, log >>

\* Line 56: load_row inserts and commits the row.
LoadRow ==
    /\ pc = "load"
    /\ LET res == load_row(connection, table, chunk[r], TRUE) IN
        /\ res.exc = NoExc
        /\ table' = res.table
        /\ statements' = statements \o res.issued
    /\ pc' = "metrics"
    /\ UNCHANGED << inputVars, connection, readerVars, chunk, r, clock,
                    countVars, statVars, metrics, log, exc >>

\* Line 56: the insert fails; load_row logs the error and re-raises it.
LoadRowError ==
    /\ pc = "load"
    /\ LET res == load_row(connection, table, chunk[r], FALSE) IN
        /\ res.exc # NoExc
        /\ table' = res.table
        /\ statements' = statements \o res.issued
        /\ log' = log \o res.log
        /\ Raise(res.exc)
    /\ UNCHANGED << inputVars, connection, readerVars, chunk, r, clock,
                    countVars, statVars, metrics >>

\* Mutant of MetricsRecord: the micro-batch is reported by its enumerate index.
MetricsRecordZeroBased ==
    [file |-> f, microbatch |-> n, total_rows_file |-> total_rows_file,
     actual_row_price |-> actual_row_price, total_rows |-> total_rows,
     sum_price |-> sum_price, avg_price |-> avg_price,
     min_price |-> min_price, max_price |-> max_price]

\* Lines 59-78: the metrics record of the row.
MetricsRecord ==
    [file |-> f, microbatch |-> n + 1, total_rows_file |-> total_rows_file,
     actual_row_price |-> actual_row_price, total_rows |-> total_rows,
     sum_price |-> sum_price, avg_price |-> avg_price,
     min_price |-> min_price, max_price |-> max_price]

LogMetrics ==
    /\ pc = "metrics"
    /\ metrics' = Append(metrics, MetricsRecord)
    /\ pc' = "row"
    /\ UNCHANGED << inputVars, dbVars, readerVars, chunk, r, clock, countVars,
                    statVars, log, exc >>

Next ==
    \/ Enter
    \/ EnterError
    \/ Exit
    \/ NextFile
    \/ EndOfFiles
    \/ MicroBatchError
    \/ MicroBatchYield
    \/ MicroBatchStop
    \/ TransformChunk
    \/ TransformError
    \/ NextRow
    \/ EndOfChunk
    \/ ComputeStatistics
    \/ StatisticsError
    \/ LoadRow
    \/ LoadRowError
    \/ LogMetrics

Spec == Init /\ [][Next]_vars

\* ------------------------------------------------- the file selector's run
\* A call of get_data_files over some directory, with some flags.
InitFiles ==
    /\ dir_exists \in BOOLEAN
    /\ listing \in (IF dir_exists THEN Listings ELSE {<<>>})
    /\ exclude_validation \in BOOLEAN
    /\ only_validation \in BOOLEAN
    /\ InitSelector
    /\ files = <<>>
    /\ chunk_size = 1
    /\ pc = "select"
    /\ InitPipeline

\* get_data_files(...) is called: a generator is made, its body has not run.
GetDataFiles ==
    /\ pc = "select"
    /\ gen = "not_called"
    /\ gen' = "created"
    /\ UNCHANGED << pc, pipelineVars, log, exc, selectorInputs, gen_files,
                    gen_pos, selected >>

\* The first pull runs the body to line 12: both flags are set, ValueError is
\* raised, logged by the handler of lines 25-27 and re-raised.
FirstPullConflict ==
    /\ pc = "select"
    /\ gen = "created"
    /\ flags_conflict(exclude_validation, only_validation)
    /\ LET e == Exc("ValueError", "get_data_files") IN
        /\ log' = Append(log, LogEntry("get_data_files", "fatal", e))
        /\ exc' = e
    /\ gen' = "raised"
    /\ UNCHANGED << pc, pipelineVars, selectorInputs, gen_files, gen_pos,
                    selected >>

\* The first pull runs the body to line 15: os.listdir raises, which is logged
\* and re-raised.
FirstPullNoDir ==
    /\ pc = "select"
    /\ gen = "created"
    /\ ~flags_conflict(exclude_validation, only_validation)
    /\ ~dir_exists
    /\ LET e == Exc("FileNotFoundError", "get_data_files") IN
        /\ log' = Append(log, LogEntry("get_data_files", "fatal", e))
        /\ exc' = e
    /\ gen' = "raised"
    /\ UNCHANGED << pc, pipelineVars, selectorInputs, gen_files, gen_pos,
                    selected >>

\* The first pull runs the body to its first yield (line 24).
FirstPullYield ==
    /\ pc = "select"
    /\ gen = "created"
    /\ ~flags_conflict(exclude_validation, only_validation)
    /\ dir_exists
    /\ gen_files' = data_files(listing, exclude_validation, only_validation)
    /\ gen_files' # <<>>
    /\ gen_pos' = 1
    /\ selected' = Append(selected, gen_files'[1])
    /\ gen' = "suspended"
    /\ UNCHANGED << pc, pipelineVars, log, exc, selectorInputs >>

\* The first pull finds no file to yield: the generator ends.
FirstPullEmpty ==
    /\ pc = "select"
    /\ gen = "created"
    /\ ~flags_conflict(exclude_validation, only_validation)
    /\ dir_exists
    /\ gen_files' = data_files(listing, exclude_validation, only_validation)
    /\ gen_files' = <<>>
    /\ gen' = "exhausted"
    /\ UNCHANGED << pc, pipelineVars, log, exc, selectorInputs, gen_pos,
                    selected >>

\* A later pull resumes the loop of lines 23-24 and yields the next path.
NextPullYield ==
    /\ pc = "select"
    /\ gen = "suspended"
    /\ gen_pos < Len(gen_files)
    /\ gen_pos' = gen_pos + 1
    /\ selected' = Append(selected, gen_files[gen_pos + 1])
    /\ UNCHANGED << pc, pipelineVars, log, exc, selectorInputs, gen, gen_files >>

\* A later pull finds the loop done: the generator ends.
NextPullStop ==
    /\ pc = "select"
    /\ gen = "suspended"
    /\ gen_pos = Len(gen_files)
    /\ gen' = "exhausted"
    /\ UNCHANGED << pc, pipelineVars, log, exc, selectorInputs, gen_files,
                    gen_pos, selected >>

NextFiles ==
    \/ GetDataFiles
    \/ FirstPullConflict
    \/ FirstPullNoDir
    \/ FirstPullYield
    \/ FirstPullEmpty
    \/ NextPullYield
    \/ NextPullStop

SpecFiles == InitFiles /\ [][NextFiles]_vars

\* ============================================================= the claims
\* What the claims are stated against: the input of the run, by position.
RECURSIVE Flatten(_, _)
Flatten(fs, k) == IF k = 0 THEN <<>> ELSE Flatten(fs, k - 1) \o fs[k].rows

\* Every row of the run, in file-set order and file order.
AllRows == Flatten(files, Len(files))

\* The number of rows in the files before file j.
RowsBefore(j) == Len(Flatten(files, j - 1))

\* For the i-th row of the run: its file, its position in that file, its
\* micro-batch in that file (1-based), and the run's rows before and up to the
\* end of that micro-batch.
FileOf(i) ==
    CHOOSE j \in 1..Len(files) :
        RowsBefore(j) < i /\ i <= RowsBefore(j) + Len(files[j].rows)
InFile(i) == i - RowsBefore(FileOf(i))
BatchOf(i) == ((InFile(i) - 1) \div chunk_size) + 1
BatchStart(i) ==
    LET before == RowsBefore(FileOf(i)) IN
    before + (((i - before - 1) \div chunk_size) * chunk_size)
BatchEnd(i) ==
    LET j == FileOf(i)
        last == RowsBefore(j) + Len(files[j].rows)
        start == BatchStart(i)
    IN  IF start + chunk_size <= last THEN start + chunk_size ELSE last

Range(sq) == { sq[i] : i \in DOMAIN sq }

\* The rows among the first k of the run that have a price.
Priced(k) == LET rows == AllRows IN { i \in 1..k : rows[i].price # Missing }

PriceSum(S) ==
    LET rows == AllRows
        RECURSIVE Total(_)
        Total(T) ==
            IF T = {} THEN 0
            ELSE LET i == CHOOSE x \in T : TRUE IN rows[i].price[1] + Total(T \ {i})
    IN  Total(S)

\* The four statistics are those of the priced rows among the first k.
StatsOfFirst(k, s, a, lo, hi) ==
    LET rows == AllRows
        priced == Priced(k)
        total == PriceSum(priced)
    IN  /\ priced # {}
        /\ s = Some(total)
        /\ a # Missing
        /\ a[1].den = Cardinality(priced)
        /\ a[1].num * Cardinality(priced) = total * a[1].den
        /\ lo # Missing
        /\ \E i \in priced : rows[i].price = lo
        /\ \A i \in priced : lo[1] <= rows[i].price[1]
        /\ hi # Missing
        /\ \E i \in priced : rows[i].price = hi
        /\ \A i \in priced : hi[1] >= rows[i].price[1]

StatsIn(m) == << m.sum_price, m.avg_price, m.min_price, m.max_price >>

\* C1: the statistics computed for the n-th row of the run are the sum, mean,
\* minimum and maximum of the non-null prices among rows 1..n of the whole run,
\* the divisor of the mean is the number of those prices, and a row with no
\* price leaves the statistics of the row before it.
C1_RunningStatistics ==
    /\ \A k \in DOMAIN metrics :
        /\ StatsOfFirst(k, metrics[k].sum_price, metrics[k].avg_price,
                        metrics[k].min_price, metrics[k].max_price)
        /\ (k > 1 /\ AllRows[k].price = Missing)
              => StatsIn(metrics[k]) = StatsIn(metrics[k - 1])
    /\ pc \in {"load", "metrics"}
          => StatsOfFirst(Len(metrics) + 1, sum_price, avg_price, min_price, max_price)

\* C1 witness: three rows over two files, the second without a price; the
\* third row's statistics span both files.
C1_Witness ==
    /\ Len(metrics) = 3
    /\ metrics[1].file = 1
    /\ metrics[3].file = 2
    /\ metrics[1].actual_row_price = Some(10)
    /\ metrics[2].actual_row_price = Missing
    /\ metrics[3].actual_row_price = Some(30)
    /\ metrics[3].sum_price = Some(40)
    /\ metrics[3].avg_price = Some([num |-> 40, den |-> 2])
    /\ metrics[3].min_price = Some(10)
    /\ metrics[3].max_price = Some(30)

\* C2 (as claimed): for a row with no price, wherever it stands in the run, the
\* statistics step goes on to the load with sum, average, min and max as they
\* were, and the load inserts the row with a null price.
C2_NullPriceRow ==
    [][ /\ (pc = "stats" /\ actual_row_price = Missing)
            => (pc' = "load" /\ UNCHANGED statVars)
        /\ (pc = "load" /\ actual_row_price = Missing /\ table' # table)
            => (Len(table') = Len(table) + 1 /\ table'[Len(table')][5] = Missing)
      ]_vars

\* The committed row t holds the values of the raw row.
HoldsRow(t, raw) ==
    /\ raw.timestamp = Missing =>
          t[1] = Missing /\ t[2] = Missing /\ t[3] = Missing /\ t[4] = Missing
    /\ raw.timestamp # Missing =>
          /\ t[1] = Some(ToDatetime(raw.timestamp))
          /\ t[2] = Some(raw.timestamp[2])
          /\ t[3] = Some(raw.timestamp[1])
          /\ t[4] = Some(raw.timestamp[3])
    /\ t[5] = raw.price
    /\ t[6] = raw.user_id

\* The table holds exactly the first k rows of the run, in order.
Persisted(k) ==
    LET rows == AllRows IN
    /\ Len(table) = k
    /\ \A i \in 1..k : HoldsRow(table[i], rows[i])

LoadFailed == \E i \in DOMAIN log : log[i].at = "load_row"

\* The rows the chunk reader has read so far in the run.
RowsRead == IF f = 0 THEN 0 ELSE RowsBefore(f) + pos

\* C3 (as claimed): when load_row raises on the k-th row, exactly the k-1 rows
\* before it are persisted, the same exception propagates, and no row after
\* the k-th has been read or transformed.
C3_NoLaterRowRead ==
    LoadFailed =>
        /\ pc \in {"exit", "raised"}
        /\ Persisted(total_rows - 1)
        /\ exc = Exc("MySQLError", "__execute_sql__")
        /\ \A i \in DOMAIN log : log[i].exc = exc
        /\ RowsRead = total_rows
        /\ Len(chunk) = r

\* C3 (amended): when load_row raises on the k-th row, exactly the k-1 rows
\* before it are persisted and reported, the same exception propagates, and
\* nothing is read beyond the micro-batch of the k-th row: the rows after it in
\* that micro-batch were read and transformed with it, no later micro-batch
\* and no later file is read.
C3_LoadFailureAborts ==
    LoadFailed =>
        /\ pc \in {"exit", "raised"}
        /\ Persisted(total_rows - 1)
        /\ Len(metrics) = total_rows - 1
        /\ exc = Exc("MySQLError", "__execute_sql__")
        /\ \A i \in DOMAIN log : log[i].exc = exc
        /\ f = FileOf(total_rows)
        /\ n + 1 = BatchOf(total_rows)
        /\ r = total_rows - BatchStart(total_rows)
        /\ RowsRead = BatchEnd(total_rows)
        /\ Len(chunk) = BatchEnd(total_rows) - BatchStart(total_rows)

\* C3 witness: the load fails on the first row of the second file, in a
\* micro-batch of two rows, with one row persisted before it.
C3_Witness ==
    /\ pc = "raised"
    /\ LoadFailed
    /\ f = 2
    /\ r = 1
    /\ Len(chunk) = 2
    /\ Len(table) = 1

RECURSIVE Concat(_)
Concat(seqs) == IF seqs = <<>> THEN <<>> ELSE seqs[1] \o Concat(Tail(seqs))

\* C4: the chunk reader yields finitely many batches of at most chunk_size
\* rows each, whose concatenation in yield order is the rows read so far, and,
\* once the reader is exhausted, exactly the file's rows in order.
C4_BatchesReproduceFile ==
    (f >= 1 /\ files[f].readable) =>
        /\ \A b \in DOMAIN yielded : Len(yielded[b]) <= chunk_size
        /\ Len(yielded) <= Len(files[f].rows) + 1
        /\ pos <= Len(files[f].rows)
        /\ Concat(yielded) = SubSeq(files[f].rows, 1, pos)
        /\ pc = "next_file" => Concat(yielded) = files[f].rows

\* C4 witness: a file of three rows read in chunks of two: a batch of two rows
\* and a batch of one, and the reader exhausted.
C4_Witness ==
    /\ pc = "next_file"
    /\ f >= 1
    /\ chunk_size = 2
    /\ Len(yielded) = 2
    /\ Len(yielded[1]) = 2
    /\ Len(yielded[2]) = 1

\* C5 (as claimed): the call of get_data_files with both flags set raises.
C5_CallRaises ==
    (exclude_validation /\ only_validation /\ gen # "not_called") =>
        /\ gen = "raised"
        /\ exc = Exc("ValueError", "get_data_files")
        /\ selected = <<>>

\* C5 (amended): with both flags set, get_data_files returns a generator whose
\* first pull raises the error (a ValueError, logged and re-raised), whatever
\* the directory holds; no path is ever yielded.
C5_FirstPullRaises ==
    (exclude_validation /\ only_validation) =>
        /\ selected = <<>>
        /\ gen \in {"not_called", "created", "raised"}
        /\ gen \in {"not_called", "created"} => exc = NoExc
        /\ gen = "raised" =>
              /\ exc = Exc("ValueError", "get_data_files")
              /\ log = <<LogEntry("get_data_files", "fatal", exc)>>

\* C5 witness: both flags, a directory with data files, the error raised.
C5_Witness ==
    /\ exclude_validation
    /\ only_validation
    /\ gen = "raised"
    /\ \E i \in DOMAIN listing : IsCsv(listing[i])
    /\ \E i \in DOMAIN listing : IsCsv(listing[i]) /\ contains(listing[i], Keyword)

\* The paths get_data_files is to yield: the data files of the directory whose
\* name passes the flags.
ExpectedPaths(exclude, only) ==
    { DataDir \o listing[i] : i \in
        { j \in DOMAIN listing :
            /\ endswith(listing[j], Csv)
            /\ exclude => ~contains(listing[j], Keyword)
            /\ only => contains(listing[j], Keyword) } }

\* C6: with at most one flag set, get_data_files yields finitely many paths, in
\* ascending order, all of .csv files; exactly those whose name passes the
\* flag; and the two filtered results partition the unfiltered one.
C6_SortedFilteredPaths ==
    (dir_exists /\ ~(exclude_validation /\ only_validation)) =>
        /\ \A i, j \in DOMAIN selected : i < j => str_lt(selected[i], selected[j])
        /\ \A i \in DOMAIN selected : endswith(selected[i], Csv)
        /\ Len(selected) <= Len(listing)
        /\ Range(selected) \subseteq ExpectedPaths(exclude_validation, only_validation)
        /\ gen = "exhausted" =>
              Range(selected) = ExpectedPaths(exclude_validation, only_validation)
        /\ Range(data_files(listing, TRUE, FALSE))
              \cup Range(data_files(listing, FALSE, TRUE))
              = Range(data_files(listing, FALSE, FALSE))
        /\ Range(data_files(listing, TRUE, FALSE))
              \cap Range(data_files(listing, FALSE, TRUE)) = {}
        /\ Range(data_files(listing, FALSE, FALSE)) = ExpectedPaths(FALSE, FALSE)

\* C6 witness: a directory of three names listed out of order, only_validation
\* set, the two validation files yielded and the generator exhausted.
C6_Witness ==
    /\ gen = "exhausted"
    /\ only_validation
    /\ Len(listing) = 3
    /\ Len(selected) = 2
    /\ str_lt(listing[2], listing[1])

EnterFailed == \E i \in DOMAIN log : log[i].at = "__enter__"

\* C7: the connection is open throughout the run inside the scope and closed
\* when the scope has ended, however the run ended; a run that failed ends
\* with its exception, which __exit__ does not suppress.
C7_ConnectionScope ==
    /\ pc \in {"next_file", "next_batch", "transform", "row", "stats", "load",
               "metrics", "exit"} => connection = "open"
    /\ pc \in {"done", "raised"} =>
          connection = (IF EnterFailed THEN "none" ELSE "closed")
    /\ pc = "raised" => exc # NoExc
    /\ pc = "done" =>
          /\ exc = NoExc
          /\ log = <<>>
          /\ f = Len(files)
          /\ Persisted(Len(AllRows))

\* C7 witness: a run that failed in a load after a row was committed has ended
\* with the connection closed and the exception propagating.
C7_Witness ==
    /\ pc = "raised"
    /\ LoadFailed
    /\ Len(table) >= 1
    /\ connection = "closed"
    /\ exc = Exc("MySQLError", "__execute_sql__")

\* C8 (as claimed): every error raised during a run is logged where it arose
\* and re-raised unchanged.
C8_EveryErrorLogged ==
    exc # NoExc =>
        /\ \E i \in DOMAIN log : log[i].at = exc.at
        /\ \A i \in DOMAIN log : log[i].exc = exc

\* C9: a metrics record follows every row loaded, after the count, the price,
\* the statistics and the load; the k-th record carries the k-th row's file,
\* its 1-based micro-batch in that file, its position in that file, its price
\* and the statistics then current; and its pipeline-wide row count is the
\* number of rows persisted and the length of prices when it is emitted.
C9_MetricsPerRow ==
    /\ \A k \in DOMAIN metrics :
        /\ k <= Len(AllRows)
        /\ metrics[k].total_rows = k
        /\ metrics[k].file = FileOf(k)
        /\ metrics[k].microbatch = BatchOf(k)
        /\ metrics[k].total_rows_file = InFile(k)
        /\ metrics[k].actual_row_price = AllRows[k].price
        /\ metrics[k].sum_price = Some(PriceSum(Priced(k)))
    /\ Len(prices) = total_rows
    /\ \A k \in DOMAIN prices : prices[k] = AllRows[k].price
    /\ pc = "stats" =>
          Len(table) = total_rows - 1 /\ Len(metrics) = total_rows - 1
    /\ pc = "load" =>
          /\ Len(table) = total_rows - 1 /\ Len(metrics) = total_rows - 1
          /\ sum_price = Some(PriceSum(Priced(total_rows)))
    /\ pc = "metrics" =>
          Len(table) = total_rows /\ Len(metrics) = total_rows - 1
    /\ pc \in {"next_file", "next_batch", "transform", "row", "done"} =>
          /\ Len(table) = total_rows
          /\ Len(metrics) = total_rows
          /\ metrics # <<>> =>
                /\ metrics[Len(metrics)].total_rows = Len(table)
                /\ metrics[Len(metrics)].total_rows = Len(prices)
                /\ StatsIn(metrics[Len(metrics)])
                      = << sum_price, avg_price, min_price, max_price >>
    /\ pc \in {"exit", "raised"} => Len(metrics) = Len(table)
    /\ pc = "done" => Len(metrics) = Len(AllRows)

\* C9 witness: three records; the second row is in the second micro-batch of
\* the first file, the third row is the first of the second file.
C9_Witness ==
    /\ Len(metrics) = 3
    /\ metrics[2].file = 1
    /\ metrics[2].microbatch = 2
    /\ metrics[2].total_rows_file = 2
    /\ metrics[3].file = 2
    /\ metrics[3].microbatch = 1
    /\ metrics[3].total_rows_file = 1
    /\ metrics[3].total_rows = 3

\* The rows of the run whose timestamp does not match the format.
Malformed(raw) == raw # Missing /\ ~MatchesFormat(raw)
BadRows ==
    LET rows == AllRows IN { i \in DOMAIN rows : Malformed(rows[i].timestamp) }

ConvertFailed == \E i \in DOMAIN log : log[i].at = "convert_to_date"

\* C10: no row of a micro-batch that holds a malformed timestamp is counted,
\* appended to prices, persisted or reported, the well-formed rows before the
\* bad one included; such a batch never reaches the row loop; and when
\* convert_to_date fails its error propagates, with exactly the rows of the
\* earlier batches and files persisted.
C10_BadTimestampFailsBatch ==
    /\ \A i \in BadRows :
        LET start == BatchStart(i) IN
        /\ total_rows <= start
        /\ Len(prices) <= start
        /\ Len(table) <= start
        /\ Len(metrics) <= start
    /\ pc \in {"row", "stats", "load", "metrics"} =>
          \A i \in DOMAIN yielded[Len(yielded)] :
              ~Malformed(yielded[Len(yielded)][i].timestamp)
    /\ ConvertFailed =>
          /\ pc \in {"exit", "raised"}
          /\ exc = Exc("ValueError", "convert_to_date")
          /\ \E i \in BadRows :
              /\ \A j \in BadRows : i <= j
              /\ RowsRead = BatchEnd(i)
              /\ Persisted(BatchStart(i))
              /\ total_rows = BatchStart(i)
              /\ Len(prices) = BatchStart(i)
              /\ Len(metrics) = BatchStart(i)

\* C10 witness: a batch of two rows whose second timestamp is malformed has
\* failed after an earlier batch was persisted; its first row is well-formed.
C10_Witness ==
    /\ pc = "raised"
    /\ ConvertFailed
    /\ Len(chunk) = 2
    /\ ~Malformed(chunk[1].timestamp)
    /\ Malformed(chunk[2].timestamp)
    /\ Len(table) >= 1

\* The value the column named col is to receive for the raw row: the parsed
\* date and its parts, the price and the user id, null where missing.
ExpectedValue(col, raw) ==
    CASE col = "timestamp" ->
            IF raw.timestamp = Missing THEN Missing ELSE Some(ToDatetime(raw.timestamp))
      [] col = "day" ->
            IF raw.timestamp = Missing THEN Missing ELSE Some(raw.timestamp[2])
      [] col = "month" ->
            IF raw.timestamp = Missing THEN Missing ELSE Some(raw.timestamp[1])
      [] col = "year" ->
            IF raw.timestamp = Missing THEN Missing ELSE Some(raw.timestamp[3])
      [] col = "price" -> raw.price
      [] col = "user_id" -> raw.user_id

CommittedStatements == { i \in DOMAIN statements : statements[i].committed }

\* C11: the i-th statement sent to the server is one single-row insert
\* (cursor.execute, never executemany) for the i-th row of the run, with 7
\* positional values in the order timestamp, day, month, year, price, user_id,
\* processed_date, null where the row's value is missing; it is committed
\* before the next row is taken; no row gets a second statement; the number of
\* committed inserts is always the number of rows in the table; and a run
\* without failure ends with exactly one committed insert per input row.
C11_OneInsertPerRow ==
    /\ Cardinality(CommittedStatements) = Len(table)
    /\ Len(statements) <= total_rows
    /\ Len(statements) <= Len(AllRows)
    /\ \A i \in DOMAIN statements :
        LET raw == AllRows[i] IN
        /\ statements[i].call = "execute"
        /\ statements[i].columns
              = << "timestamp", "day", "month", "year", "price", "user_id",
                   "processed_date" >>
        /\ Len(statements[i].args) = 7
        /\ \A c \in 1..6 :
              statements[i].args[c] = ExpectedValue(statements[i].columns[c], raw)
        /\ statements[i].args[7] # Missing
        /\ i < Len(statements) => statements[i].committed
        /\ statements[i].committed => table[i] = statements[i].args
    /\ pc \in {"stats", "load"} => Len(statements) = total_rows - 1
    /\ pc \in {"metrics", "row", "next_batch", "next_file", "transform", "done"} =>
          /\ Len(statements) = total_rows
          /\ CommittedStatements = DOMAIN statements
    /\ pc = "done" =>
          /\ Len(statements) = Len(AllRows)
          /\ Len(table) = Len(AllRows)

\* C11 witness: a run of three rows over two files has ended without failure:
\* three committed inserts, the second with a null price, the third with a
\* null timestamp, day, month, year and user id.
C11_Witness ==
    /\ pc = "done"
    /\ f = 2
    /\ Len(statements) = 3
    /\ Len(table) = 3
    /\ statements[1].args[1] # Missing
    /\ statements[1].args[5] # Missing
    /\ statements[2].args[5] = Missing
    /\ statements[2].args[6] = Some(1)
    /\ statements[3].args[1] = Missing
    /\ statements[3].args[2] = Missing
    /\ statements[3].args[6] = Missing
    /\ statements[3].args[5] = Some(10)

====
